---- MODULE Spec2Model ----
(***************************************************************************)
(* The SQL admission and execution gateway of UZMANRAPOR_API/main.py:      *)
(* the POST /sql handler, its auth guard, its query validator and its      *)
(* executor.  Text is modelled character by character (a string is a      *)
(* sequence of one-character strings), so that the regular expressions    *)
(* of the validator are computed the way the re module computes them.     *)
(***************************************************************************)
EXTENDS Integers, Sequences, FiniteSets, TLC

(* ------------------------------------------------------------------ *)
(* Characters and the str methods the validator uses                  *)
(* ------------------------------------------------------------------ *)

Lowers == <<"a","b","c","d","e","f","g","h","i","j","k","l","m","n","o","p","q","r","s","t","u","v","w","x","y","z">>

Uppers == <<"A","B","C","D","E","F","G","H","I","J","K","L","M","N","O","P","Q","R","S","T","U","V","W","X","Y","Z">>

Digits == {"0","1","2","3","4","5","6","7","8","9"}

\* \w of a str pattern, on the ASCII range
WordChars == {Lowers[i] : i \in DOMAIN Lowers} \cup {Uppers[i] : i \in DOMAIN Uppers} \cup Digits \cup {"_"}

\* \s, and the characters str.strip() and str.split(None) treat as blank
Whitespace == {" ", "\t", "\n", "\r"}

\* str.lower() on one character
LowerChar(c) == IF \E i \in DOMAIN Uppers : Uppers[i] = c THEN Lowers[CHOOSE i \in DOMAIN Uppers : Uppers[i] = c] ELSE c

\* str.lower()
Lower(s) == [i \in 1..Len(s) |-> LowerChar(s[i])]

RECURSIVE lstrip(_)
lstrip(s) == IF s # <<>> /\ Head(s) \in Whitespace THEN lstrip(Tail(s)) ELSE s

RECURSIVE rstrip(_)
rstrip(s) == IF s # <<>> /\ s[Len(s)] \in Whitespace THEN rstrip(SubSeq(s, 1, Len(s) - 1)) ELSE s

\* str.strip()
strip(s) == rstrip(lstrip(s))

\* the index of the last character of the run of characters of set cs that
\* starts at index p of s (p - 1 when s[p] is not in cs): a greedy cs*
RECURSIVE RunEnd(_, _, _)
RunEnd(s, p, cs) == IF p <= Len(s) /\ s[p] \in cs THEN RunEnd(s, p + 1, cs) ELSE p - 1

\* q.split(None, 1)[0] of a stripped, non-empty q: its first blank-delimited token
FirstToken(q) == SubSeq(q, 1, RunEnd(q, 1, {q[i] : i \in 1..Len(q)} \ Whitespace))

(* ------------------------------------------------------------------ *)
(* The regular expressions                                            *)
(* ------------------------------------------------------------------ *)

IsWordAt(s, i) == i >= 1 /\ i <= Len(s) /\ s[i] \in WordChars

\* \b between s[i] and s[i+1] (i = 0: before the text, i = Len(s): after it)
Boundary(s, i) == IsWordAt(s, i) # IsWordAt(s, i + 1)

\* a lower-case literal of a re.IGNORECASE pattern matches s from index p on
MatchesAt(s, p, lit) == /\ p >= 1
                        /\ p + Len(lit) - 1 <= Len(s)
                        /\ \A j \in 1..Len(lit) : LowerChar(s[p + j - 1]) = lit[j]

\* the alternatives of _FORBIDDEN
FORBIDDEN_WORDS == { <<"c","r","e","a","t","e">>, <<"a","l","t","e","r">>, <<"d","r","o","p">>, <<"t","r","u","n","c","a","t","e">>, <<"g","r","a","n","t">>, <<"r","e","v","o","k","e">>,
                     <<"x","p","_">>, <<"s","p","_","c","o","n","f","i","g","u","r","e">>, <<"o","p","e","n","r","o","w","s","e","t">>, <<"o","p","e","n","q","u","e","r","y">> }

\* _FORBIDDEN compiled without re.IGNORECASE
FORBIDDEN_match_CaseSensitive(s, p) ==
    \E kw \in FORBIDDEN_WORDS : /\ p + Len(kw) - 1 <= Len(s)
                                /\ \A j \in 1..Len(kw) : s[p + j - 1] = kw[j]
                                /\ Boundary(s, p - 1)
                                /\ Boundary(s, p - 1 + Len(kw))

\* _FORBIDDEN = \b(create|...|openquery)\b matches s at index p
FORBIDDEN_match(s, p) == \E kw \in FORBIDDEN_WORDS : /\ MatchesAt(s, p, kw)
                                                    /\ Boundary(s, p - 1)
                                                    /\ Boundary(s, p - 1 + Len(kw))

\* _FORBIDDEN.search(s) is not None
FORBIDDEN_search(s) == \E p \in 1..Len(s) : FORBIDDEN_match(s, p)

ALLOWED_OBJECTS == { <<"d","b","o",".","A","p","p","M","e","t","a">>, <<"d","b","o",".","S","n","a","p","s","h","o","t","s">>, <<"d","b","o",".","N","o","t","e","R","u","l","e","s">>, <<"d","b","o",".","A","p","p","U","s","e","r","s">>,
                     <<"d","b","o",".","A","p","p","L","o","o","k","u","p","V","a","l","u","e","s">>, <<"d","b","o",".","U","s","t","a","D","e","f","t","e","r","i">>, <<"d","b","o",".","T","i","p","B","u","z","u","l","m","e","M","o","d","e","l">>,
                     <<"d","b","o",".","L","o","o","m","C","u","t","M","a","p">>, <<"d","b","o",".","T","y","p","e","S","e","l","v","e","d","g","e","M","a","p">>, <<"d","b","o",".","B","l","o","c","k","e","d","L","o","o","m","s">>,
                     <<"d","b","o",".","D","u","m","m","y","L","o","o","m","s">>, <<"d","b","o",".","I","t","e","m","a","A","y","a","r">> }

ALLOWED_PROCS == { <<"d","b","o",".","s","p","_","I","t","e","m","a","O","t","o","m","a","t","i","k","A","y","a","r">>, <<"d","b","o",".","s","p","_","I","t","e","m","a","T","i","p","O","z","e","l","A","y","a","r">> }

ALLOWED_VERBS == { <<"s","e","l","e","c","t">>, <<"i","n","s","e","r","t">>, <<"u","p","d","a","t","e">>, <<"d","e","l","e","t","e">>, <<"e","x","e","c">>, <<"w","i","t","h">> }

DBO_DOT == <<"d","b","o",".">>

EXEC_WORD == <<"e","x","e","c">>

\* _OBJ_REF = \bdbo\.(\w+)\b matches s at index p (\w+ is greedy, and the \b
\* after the whole run of word characters always holds)
OBJ_REF_match(s, p) == /\ Boundary(s, p - 1)
                       /\ MatchesAt(s, p, DBO_DOT)
                       /\ IsWordAt(s, p + Len(DBO_DOT))

\* the f"dbo.{m.group(1)}" of the matches of _OBJ_REF.finditer(s), scanning
\* from index p, in the order found (finditer resumes after each match)
RECURSIVE OBJ_REF_finditer(_, _)
OBJ_REF_finditer(s, p) ==
    IF p > Len(s) THEN <<>>
    ELSE IF OBJ_REF_match(s, p)
         THEN LET e == RunEnd(s, p + Len(DBO_DOT), WordChars)
              IN  <<DBO_DOT \o SubSeq(s, p + Len(DBO_DOT), e)>> \o OBJ_REF_finditer(s, e + 1)
         ELSE OBJ_REF_finditer(s, p + 1)

\* _EXEC_REF = \bexec\s+(dbo\.(\w+))\b matches s at index p; the value is
\* m.group(1), the text of s that matched dbo\.(\w+), or <<>> for no match
EXEC_REF_match(s, p) ==
    IF Boundary(s, p - 1) /\ MatchesAt(s, p, EXEC_WORD)
    THEN LET w == RunEnd(s, p + Len(EXEC_WORD), Whitespace)
             d == w + 1
         IN  IF w >= p + Len(EXEC_WORD) /\ MatchesAt(s, d, DBO_DOT) /\ IsWordAt(s, d + Len(DBO_DOT))
             THEN SubSeq(s, d, RunEnd(s, d + Len(DBO_DOT), WordChars))
             ELSE <<>>
    ELSE <<>>

\* _EXEC_REF.search(s): group(1) of the leftmost match, <<>> when there is none
RECURSIVE EXEC_REF_search(_, _)
EXEC_REF_search(s, p) ==
    IF p > Len(s) THEN <<>>
    ELSE IF EXEC_REF_match(s, p) # <<>> THEN EXEC_REF_match(s, p)
         ELSE EXEC_REF_search(s, p + 1)

(* ------------------------------------------------------------------ *)
(* Values                                                             *)
(* ------------------------------------------------------------------ *)

\* None, where the other values are strings (never equal to a string)
None == <<"<None>">>

\* HTTPException(status_code, detail); detail is text followed by arg, the
\* value an f-string interpolates
HTTPException(status_code, text, arg) == [status |-> status_code, detail |-> [text |-> text, arg |-> arg]]

\* a call that returned without raising
NoError == [status |-> 0, detail |-> [text |-> "", arg |-> <<>>]]

(* ------------------------------------------------------------------ *)
(* _env and _require_token                                            *)
(* ------------------------------------------------------------------ *)

\* lines 21-23: _env(name, default) where os.getenv(name) is v
env(v, default) == IF v # None /\ v # <<>> THEN strip(v) ELSE default

\* the guard with "if x_token and x_token != expected": a request without a
\* token passes
require_token_MissingPasses(x_token, envValue) ==
    LET expected == env(envValue, <<>>)
    IN  IF expected # <<>> /\ x_token # None /\ x_token # <<>> /\ x_token # expected
        THEN HTTPException(401, "Unauthorized", <<>>)
        ELSE NoError

\* lines 26-30
require_token(x_token, envValue) ==
    LET expected == env(envValue, <<>>)
    IN  IF expected # <<>> /\ (x_token = None \/ x_token = <<>> \/ x_token # expected)
        THEN HTTPException(401, "Unauthorized", <<>>)
        ELSE NoError

(* ------------------------------------------------------------------ *)
(* _validate_query                                                    *)
(* ------------------------------------------------------------------ *)

\* a sequence without its repeated elements: the set the comprehension builds,
\* in insertion order
RECURSIVE Distinct(_)
Distinct(seq) == IF seq = <<>> THEN <<>>
                 ELSE LET init == Distinct(SubSeq(seq, 1, Len(seq) - 1))
                          last == seq[Len(seq)]
                      IN  IF \E i \in DOMAIN init : init[i] = last THEN init ELSE Append(init, last)

Reverse(seq) == [i \in 1..Len(seq) |-> seq[Len(seq) + 1 - i]]

\* the order in which "for obj in objs" visits a set of str: it depends on the
\* process's string hash seed; seed 0 visits in insertion order, any other
\* seed in the opposite order
SetIteration(seq, seed) == IF seed = 0 THEN seq ELSE Reverse(seq)

\* lines 93-95
EmptyCheck(q) == IF q = <<>> THEN HTTPException(400, "Empty query", <<>>) ELSE NoError

\* lines 97-98
ForbiddenCheck(q) == IF FORBIDDEN_search(q) THEN HTTPException(403, "Forbidden SQL keyword", <<>>) ELSE NoError

\* line 101
HeadVerb(q) == Lower(FirstToken(q))

\* the verb looked for anywhere in the text, \b(select|...|with)\b, instead of
\* at its head
VerbCheck_AnyWord(q) ==
    IF \E p \in 1..Len(q), v \in ALLOWED_VERBS :
           MatchesAt(q, p, v) /\ Boundary(q, p - 1) /\ Boundary(q, p - 1 + Len(v))
    THEN NoError
    ELSE HTTPException(403, "Only SELECT/INSERT/UPDATE/DELETE/EXEC are allowed", <<>>)

\* lines 102-103
VerbCheck(q) == IF HeadVerb(q) \notin ALLOWED_VERBS
                THEN HTTPException(403, "Only SELECT/INSERT/UPDATE/DELETE/EXEC are allowed", <<>>)
                ELSE NoError

\* the detail without the interpolated object
ObjectCheck_NoName(q, seed) ==
    IF \E i \in DOMAIN OBJ_REF_finditer(q, 1) :
           /\ OBJ_REF_finditer(q, 1)[i] \notin ALLOWED_OBJECTS
           /\ OBJ_REF_finditer(q, 1)[i] \notin ALLOWED_PROCS
    THEN HTTPException(403, "Object not allowed: ", <<>>)
    ELSE NoError

\* lines 106-109
ObjectCheck(q, seed) ==
    LET objs == SetIteration(Distinct(OBJ_REF_finditer(q, 1)), seed)
        bad  == SelectSeq(objs, LAMBDA obj : obj \notin ALLOWED_OBJECTS /\ obj \notin ALLOWED_PROCS)
    IN  IF bad # <<>> THEN HTTPException(403, "Object not allowed: ", bad[1]) ELSE NoError

\* lines 111-117
ExecCheck(q) ==
    IF HeadVerb(q) = EXEC_WORD
    THEN LET proc == EXEC_REF_search(q, 1)
         IN  IF proc = <<>> THEN HTTPException(403, "EXEC only allowed for dbo stored procedures", <<>>)
             ELSE IF proc \notin ALLOWED_PROCS THEN HTTPException(403, "Procedure not allowed: ", proc)
             ELSE NoError
    ELSE NoError

\* _validate_query without line 93's strip()
validate_query_NoStrip(query, seed) ==
    LET q == query
    IN  IF EmptyCheck(q).status # 0 THEN EmptyCheck(q)
        ELSE IF ForbiddenCheck(q).status # 0 THEN ForbiddenCheck(q)
        ELSE IF VerbCheck(q).status # 0 THEN VerbCheck(q)
        ELSE IF ObjectCheck(q, seed).status # 0 THEN ObjectCheck(q, seed)
        ELSE ExecCheck(q)

\* lines 92-117: the first check that raises decides
validate_query(query, seed) ==
    LET q == strip(query)
    IN  IF EmptyCheck(q).status # 0 THEN EmptyCheck(q)
        ELSE IF ForbiddenCheck(q).status # 0 THEN ForbiddenCheck(q)
        ELSE IF VerbCheck(q).status # 0 THEN VerbCheck(q)
        ELSE IF ObjectCheck(q, seed).status # 0 THEN ObjectCheck(q, seed)
        ELSE ExecCheck(q)

(* ------------------------------------------------------------------ *)
(* Result values and _encode_value                                    *)
(* ------------------------------------------------------------------ *)

\* a cell the driver returns: a bytes value (b: its bytes) or a str value (s)
Bytes(b) == [t |-> "bytes", b |-> b, s |-> <<>>]

Str(s) == [t |-> "str", b |-> <<>>, s |-> s]

B64Alphabet == <<"A","B","C","D","E","F","G","H","I","J","K","L","M","N","O","P","Q","R","S","T","U","V","W","X","Y","Z","a","b","c","d","e","f","g","h","i","j","k","l","m","n","o","p","q","r","s","t","u","v","w","x","y","z","0","1","2","3","4","5","6","7","8","9","+","/">>

B64Char(n) == B64Alphabet[n + 1]

\* base64.b64encode(b).decode("ascii"): 3 bytes give 4 characters, a last
\* group of 1 or 2 bytes is padded with "="
RECURSIVE b64encode(_)
b64encode(b) ==
    IF Len(b) = 0 THEN <<>>
    ELSE IF Len(b) = 1
         THEN <<B64Char(b[1] \div 4), B64Char((b[1] % 4) * 16), "=", "=">>
    ELSE IF Len(b) = 2
         THEN <<B64Char(b[1] \div 4), B64Char((b[1] % 4) * 16 + b[2] \div 16),
                B64Char((b[2] % 16) * 4), "=">>
    ELSE <<B64Char(b[1] \div 4), B64Char((b[1] % 4) * 16 + b[2] \div 16),
           B64Char((b[2] % 16) * 4 + b[3] \div 64), B64Char(b[3] % 64)>>
         \o b64encode(SubSeq(b, 4, Len(b)))

\* base64 without the = padding
encode_value_Unpadded(v) == IF v.t = "bytes" THEN Str(SelectSeq(b64encode(v.b), LAMBDA c : c # "=")) ELSE v

\* lines 135-138
encode_value(v) == IF v.t = "bytes" THEN Str(b64encode(v.b)) ELSE v

(* ------------------------------------------------------------------ *)
(* Parameters and _adapt_params                                       *)
(* ------------------------------------------------------------------ *)

\* a parameter that is no str: a JSON number
Num(n) == [t |-> "int", b |-> <<n>>, s |-> <<>>]

IsB64Char(c) == \E n \in DOMAIN B64Alphabet : B64Alphabet[n] = c

B64Index(c) == (CHOOSE n \in DOMAIN B64Alphabet : B64Alphabet[n] = c) - 1

\* binascii.a2b_base64(s) without strict mode, from index i on: quad is the
\* position in the group of 4, left the bits not yet written, pads the "="
\* seen since the last data character.  A character outside the alphabet is
\* skipped; "=" that completes the group ends the decoding and what follows
\* is ignored; a text that ends inside a group raises binascii.Error
RECURSIVE a2b_base64(_, _, _, _, _, _)
a2b_base64(s, i, quad, left, pads, out) ==
    IF i > Len(s) THEN [ok |-> quad = 0, bytes |-> out]
    ELSE IF s[i] = "="
         THEN IF quad >= 2 /\ quad + pads + 1 >= 4
              THEN [ok |-> TRUE, bytes |-> out]
              ELSE a2b_base64(s, i + 1, quad, left, IF quad >= 2 THEN pads + 1 ELSE pads, out)
    ELSE IF ~IsB64Char(s[i]) THEN a2b_base64(s, i + 1, quad, left, pads, out)
    ELSE LET c == B64Index(s[i])
         IN  IF quad = 0 THEN a2b_base64(s, i + 1, 1, c, 0, out)
             ELSE IF quad = 1
                  THEN a2b_base64(s, i + 1, 2, c % 16, 0, Append(out, left * 4 + c \div 16))
             ELSE IF quad = 2
                  THEN a2b_base64(s, i + 1, 3, c % 4, 0, Append(out, left * 16 + c \div 4))
             ELSE a2b_base64(s, i + 1, 0, 0, 0, Append(out, left * 64 + c))

\* base64.b64decode(s) of an ASCII str: ok is FALSE where it raises
b64decode(s) == a2b_base64(s, 1, 0, 0, 0, <<>>)

NOTERULES_INSERT == <<"i","n","s","e","r","t"," ","i","n","t","o"," ","d","b","o",".","n","o","t","e","r","u","l","e","s">>

\* lit in s
Contains(s, lit) == \E p \in 1..Len(s) : /\ p + Len(lit) - 1 <= Len(s)
                                         /\ SubSeq(s, p, p + Len(lit) - 1) = lit

\* lines 120-132: the value is a new list, params itself is not assigned to
adapt_params(query, ps) ==
    IF Contains(Lower(query), NOTERULES_INSERT) /\ ps # <<>>
    THEN [i \in 1..Len(ps) |->
             IF ps[i].t = "str" /\ b64decode(ps[i].s).ok THEN Bytes(b64decode(ps[i].s).bytes) ELSE ps[i]]
    ELSE ps

(* ------------------------------------------------------------------ *)
(* Inputs                                                             *)
(* ------------------------------------------------------------------ *)

\* the number of pieces a query text is put together from
MaxPieces == 3

\* the number of rows a result set holds
MaxRows == 1

Pieces == << <<"s","e","l","e","c","t"," ","*"," ","f","r","o","m"," ">>, <<"E","X","E","C"," ">>, <<"d","b","o",".","A","p","p","M","e","t","a">>, <<"d","b","o",".","S","e","c","r","e","t">>,
             <<"d","b","o",".","s","p","_","I","t","e","m","a","O","t","o","m","a","t","i","k","A","y","a","r">>, <<"s","y","s",".","s","p","_","w","h","o"," ">>, <<"D","R","O","P">>, <<"x","p","_">>,
             <<" ">>, <<"s","h","u","t","d","o","w","n"," ">> >>

RECURSIVE Concat(_)
Concat(ps) == IF ps = <<>> THEN <<>> ELSE Pieces[Head(ps)] \o Concat(Tail(ps))

\* every text of at most MaxPieces pieces
Queries == {Concat(ps) : ps \in UNION {[1..n -> DOMAIN Pieces] : n \in 0..MaxPieces}}

\* the texts the concurrent requests draw from: one per outcome of the validator
SampleQueries == { Concat(<<1, 3>>), Concat(<<1, 4>>), Concat(<<7, 9, 3>>) }

\* the values of UZMANRAPOR_API_TOKEN in the environment (None: not set)
EnvValues == { None, <<" ">>, <<" ","k"," ">> }

\* the X-Token header (None: no header)
Tokens == { None, <<>>, <<"k">>, <<"x">> }

HashSeeds == {0, 1}

\* cursor.description of a statement that returns rows; <<>> stands for the
\* None of a statement that returns none
Descriptions == { <<>>, <<"id", "doc">> }

CellValues == { Str(<<"7">>), Bytes(<<77, 97>>) }

\* cursor.rowcount of a statement that returns no rows; <<>> stands for None
RowCounts == { <<>>, <<1>> }

Rows(description) == [1..Len(description) -> CellValues]

ResultSets(description) == UNION {[1..n -> Rows(description)] : n \in 0..MaxRows}

(* ------------------------------------------------------------------ *)
(* The state                                                          *)
(* ------------------------------------------------------------------ *)

\* the requests in flight: each one is a call of sql() on a worker thread
Reqs == {"r1", "r2"}

VARIABLES
    envToken,   \* os.getenv("UZMANRAPOR_API_TOKEN") of the process
    hashSeed,   \* the string hash seed of the process
    pc,         \* pc[r]: where request r is in sql()
    req,        \* req[r]: the SqlRequest's query and params, and the X-Token header
    params,     \* params[r]: the local params, the list cur.execute gets
    conn,       \* conn[r]: the local conn: "unbound", "open" or "closed"
    cur,        \* cur[r]: description, rowcount and fetched rows of the cursor
    txn,        \* txn[r]: the transaction on conn[r]: "none", "clean", "dirty", "committed", "rolledback"
    exc,        \* exc[r]: the message of the exception a driver call raised ("": none)
    outcome,    \* outcome[r]: what the try block returned or raised, until finally has run
    response,   \* response[r]: the HTTP response of r
    connects,   \* connects[r]: calls of pyodbc.connect
    executes,   \* executes[r]: calls of cur.execute
    commits     \* commits[r]: calls of conn.commit

vars == <<envToken, hashSeed, pc, req, params, conn, cur, txn, exc, outcome, response, connects, executes, commits>>

NoResponse == [status |-> 0, body |-> [detail |-> NoError.detail]]

NoCursor == [description |-> <<>>, rowcount |-> <<>>, rows |-> <<>>]

\* FastAPI's response to a raised HTTPException
ErrorResponse(e) == [status |-> e.status, body |-> [detail |-> e.detail]]

\* the except clause with a fixed detail instead of str(e)
ExceptClause_Generic(message) == ErrorResponse(HTTPException(500, "Internal Server Error", <<>>))

\* lines 171-172: except Exception as e: raise HTTPException(status_code=500, detail=str(e))
ExceptClause(message) == ErrorResponse(HTTPException(500, message, <<>>))

Init ==
    /\ envToken \in EnvValues
    /\ hashSeed \in HashSeeds
    /\ pc = [r \in Reqs |-> "idle"]
    /\ req = [r \in Reqs |-> [query |-> <<>>, x_token |-> None, params |-> <<>>]]
    /\ params = [r \in Reqs |-> <<>>]
    /\ conn = [r \in Reqs |-> "unbound"]
    /\ cur = [r \in Reqs |-> NoCursor]
    /\ txn = [r \in Reqs |-> "none"]
    /\ exc = [r \in Reqs |-> ""]
    /\ outcome = [r \in Reqs |-> NoResponse]
    /\ response = [r \in Reqs |-> NoResponse]
    /\ connects = [r \in Reqs |-> 0]
    /\ executes = [r \in Reqs |-> 0]
    /\ commits = [r \in Reqs |-> 0]

(* ------------------------------------------------------------------ *)
(* sql(): one action per step of the handler                          *)
(* ------------------------------------------------------------------ *)

\* a POST /sql arrives with a query from Q, a token from T and params from P
Receive(r, Q, T, P) ==
    /\ pc[r] = "idle"
    /\ \E q \in Q, t \in T, ps \in P :
          req' = [req EXCEPT ![r] = [query |-> q, x_token |-> t, params |-> ps]]
    /\ pc' = [pc EXCEPT ![r] = "auth"]
    /\ UNCHANGED <<envToken, hashSeed, params, conn, cur, txn, exc, outcome, response, connects, executes, commits>>

\* a raised HTTPException leaves sql() before its try block
Raise(r, e) ==
    /\ response' = [response EXCEPT ![r] = ErrorResponse(e)]
    /\ pc' = [pc EXCEPT ![r] = "done"]

\* line 148
Auth(r) ==
    /\ pc[r] = "auth"
    /\ LET e == require_token(req[r].x_token, envToken)
       IN  IF e.status # 0 THEN Raise(r, e)
           ELSE pc' = [pc EXCEPT ![r] = "validate"] /\ UNCHANGED response
    /\ UNCHANGED <<envToken, hashSeed, params, req, conn, cur, txn, exc, outcome, connects, executes, commits>>

\* the verdict of _validate_query is not acted on
Validate_Unchecked(r) ==
    /\ pc[r] = "validate"
    /\ pc' = [pc EXCEPT ![r] = "connect"]
    /\ params' = [params EXCEPT ![r] = adapt_params(req[r].query, req[r].params)]
    /\ UNCHANGED <<envToken, hashSeed, req, conn, cur, txn, exc, outcome, response, connects, executes, commits>>

\* lines 149-152: _validate_query raises or returns; _sql_conn_str and
\* _adapt_params then compute locals of the call, they raise nothing and change
\* no state of the process
Validate(r) ==
    /\ pc[r] = "validate"
    /\ LET e == validate_query(req[r].query, hashSeed)
       IN  IF e.status # 0 THEN Raise(r, e) /\ UNCHANGED params
           ELSE /\ pc' = [pc EXCEPT ![r] = "connect"]
                /\ params' = [params EXCEPT ![r] = adapt_params(req[r].query, req[r].params)]
                /\ UNCHANGED response
    /\ UNCHANGED <<envToken, hashSeed, req, conn, cur, txn, exc, outcome, connects, executes, commits>>

\* a driver call inside the try block raises: the except clause turns it into
\* a 500 and control goes to the finally clause
DriverRaises(r, message) ==
    /\ exc' = [exc EXCEPT ![r] = message]
    /\ outcome' = [outcome EXCEPT ![r] = ExceptClause(message)]
    /\ pc' = [pc EXCEPT ![r] = "finally"]

\* line 155
Connect(r) ==
    /\ pc[r] = "connect"
    /\ connects' = [connects EXCEPT ![r] = @ + 1]
    /\ \/ /\ conn' = [conn EXCEPT ![r] = "open"]
          /\ txn' = [txn EXCEPT ![r] = "clean"]
          /\ pc' = [pc EXCEPT ![r] = "cursor"]
          /\ UNCHANGED <<exc, outcome>>
       \/ /\ DriverRaises(r, "connect failed")
          /\ UNCHANGED <<conn, txn>>
    /\ UNCHANGED <<envToken, hashSeed, params, req, cur, response, executes, commits>>

\* line 156
Cursor(r) ==
    /\ pc[r] = "cursor"
    /\ \/ pc' = [pc EXCEPT ![r] = "execute"] /\ UNCHANGED <<exc, outcome>>
       \/ DriverRaises(r, "cursor failed")
    /\ UNCHANGED <<envToken, hashSeed, params, req, conn, cur, txn, response, connects, executes, commits>>

\* lines 157-160: the statement runs; the driver reports whether it returns
\* rows (then its rowcount is -1), and it may have modified data either way
Execute(r) ==
    /\ pc[r] = "execute"
    /\ executes' = [executes EXCEPT ![r] = @ + 1]
    /\ \/ \E d \in Descriptions, rc \in RowCounts, modified \in BOOLEAN :
            /\ d # <<>> => rc = <<1>>   \* one draw for a row-returning statement
            /\ cur' = [cur EXCEPT ![r] = [description |-> d,
                                           rowcount |-> IF d # <<>> THEN <<-1>> ELSE rc,
                                           rows |-> <<>>]]
            /\ txn' = [txn EXCEPT ![r] = IF modified THEN "dirty" ELSE @]
            /\ pc' = [pc EXCEPT ![r] = IF d # <<>> THEN "fetch" ELSE "commit"]
            /\ UNCHANGED <<exc, outcome>>
       \/ /\ DriverRaises(r, "execute failed")
          /\ UNCHANGED <<cur, txn>>
    /\ UNCHANGED <<envToken, hashSeed, params, req, conn, response, connects, commits>>

\* the response counts rows with cursor.rowcount, which is -1 here
Fetch_RowcountFromCursor(r) ==
    /\ pc[r] = "fetch"
    /\ \/ \E rows \in ResultSets(cur[r].description) :
            LET data_rows == [i \in DOMAIN rows |-> [j \in DOMAIN rows[i] |-> encode_value(rows[i][j])]]
            IN  /\ cur' = [cur EXCEPT ![r].rows = rows]
                /\ outcome' = [outcome EXCEPT ![r] =
                       [status |-> 200,
                        body |-> [columns |-> cur[r].description, rows |-> data_rows,
                                  rowcount |-> cur[r].rowcount[1]]]]
                /\ pc' = [pc EXCEPT ![r] = "finally"]
                /\ UNCHANGED exc
       \/ DriverRaises(r, "fetchall failed") /\ UNCHANGED cur
    /\ UNCHANGED <<envToken, hashSeed, params, req, conn, txn, response, connects, executes, commits>>

\* lines 161-164
Fetch(r) ==
    /\ pc[r] = "fetch"
    /\ \/ \E rows \in ResultSets(cur[r].description) :
            LET data_rows == [i \in DOMAIN rows |-> [j \in DOMAIN rows[i] |-> encode_value(rows[i][j])]]
            IN  /\ cur' = [cur EXCEPT ![r].rows = rows]
                /\ outcome' = [outcome EXCEPT ![r] =
                       [status |-> 200,
                        body |-> [columns |-> cur[r].description, rows |-> data_rows,
                                  rowcount |-> Len(data_rows)]]]
                /\ pc' = [pc EXCEPT ![r] = "finally"]
                /\ UNCHANGED exc
       \/ DriverRaises(r, "fetchall failed") /\ UNCHANGED cur
    /\ UNCHANGED <<envToken, hashSeed, params, req, conn, txn, response, connects, executes, commits>>

\* one connection for the whole process: a commit makes the uncommitted work
\* of every request durable
Commit_SharedConnection(r) ==
    /\ pc[r] = "commit"
    /\ commits' = [commits EXCEPT ![r] = @ + 1]
    /\ \/ /\ txn' = [q \in Reqs |-> IF q = r \/ txn[q] = "dirty" THEN "committed" ELSE txn[q]]
          /\ LET rc == IF cur[r].rowcount # <<>> THEN cur[r].rowcount[1] ELSE -1
             IN  outcome' = [outcome EXCEPT ![r] =
                     [status |-> 200,
                      body |-> [columns |-> <<>>, rows |-> <<>>, affected_rows |-> rc]]]
          /\ pc' = [pc EXCEPT ![r] = "finally"]
          /\ UNCHANGED exc
       \/ /\ DriverRaises(r, "commit failed")
          /\ UNCHANGED txn
    /\ UNCHANGED <<envToken, hashSeed, params, req, conn, cur, response, connects, executes>>

\* lines 166-168
Commit(r) ==
    /\ pc[r] = "commit"
    /\ commits' = [commits EXCEPT ![r] = @ + 1]
    /\ \/ /\ txn' = [txn EXCEPT ![r] = "committed"]
          /\ LET rc == IF cur[r].rowcount # <<>> THEN cur[r].rowcount[1] ELSE -1
             IN  outcome' = [outcome EXCEPT ![r] =
                     [status |-> 200,
                      body |-> [columns |-> <<>>, rows |-> <<>>, affected_rows |-> rc]]]
          /\ pc' = [pc EXCEPT ![r] = "finally"]
          /\ UNCHANGED exc
       \/ /\ DriverRaises(r, "commit failed")
          /\ UNCHANGED txn
    /\ UNCHANGED <<envToken, hashSeed, params, req, conn, cur, response, connects, executes>>

\* conn.close() as the last statement of the try block instead of in finally
Finally_CloseOnSuccessOnly(r) ==
    /\ pc[r] = "finally"
    /\ conn' = [conn EXCEPT ![r] = IF @ = "open" /\ outcome[r].status = 200 THEN "closed" ELSE @]
    /\ txn' = [txn EXCEPT ![r] = IF @ = "dirty" /\ outcome[r].status = 200 THEN "rolledback" ELSE @]
    /\ response' = [response EXCEPT ![r] = outcome[r]]
    /\ outcome' = [outcome EXCEPT ![r] = NoResponse]
    /\ pc' = [pc EXCEPT ![r] = "done"]
    /\ UNCHANGED <<envToken, hashSeed, params, req, cur, exc, connects, executes, commits>>

\* lines 173-177: conn.close() inside try/except Exception: pass.  With conn
\* unbound (connect raised) the call raises UnboundLocalError, which the
\* except swallows; closing an open connection rolls back what is uncommitted.
\* Then the return value or the exception of the try block leaves sql().
Finally(r) ==
    /\ pc[r] = "finally"
    /\ conn' = [conn EXCEPT ![r] = IF @ = "open" THEN "closed" ELSE @]
    /\ txn' = [txn EXCEPT ![r] = IF @ = "dirty" THEN "rolledback" ELSE @]
    /\ response' = [response EXCEPT ![r] = outcome[r]]
    /\ outcome' = [outcome EXCEPT ![r] = NoResponse]
    /\ pc' = [pc EXCEPT ![r] = "done"]
    /\ UNCHANGED <<envToken, hashSeed, params, req, cur, exc, connects, executes, commits>>

Step(r) == Auth(r) \/ Validate(r) \/ Connect(r) \/ Cursor(r) \/ Execute(r) \/ Fetch(r) \/ Commit(r) \/ Finally(r)

\* the requests run concurrently
Next == \E r \in Reqs : Receive(r, SampleQueries, Tokens, {<<>>}) \/ Step(r)

Spec == Init /\ [][Next]_vars

\* one request at a time, over every text of the bounded query language
NextV == Receive("r1", Queries, {<<"k">>}, {<<>>}) \/ Step("r1")

\* the secret is configured and the request carries it
InitV == Init /\ envToken = <<" ","k"," ">>

SpecV == InitV /\ [][NextV]_vars

(* ------------------------------------------------------------------ *)
(* The properties, stated on the text of the query and on the         *)
(* responses, independently of the checks that decide them            *)
(* ------------------------------------------------------------------ *)

Query(r) == req[r].query

\* r got past the auth guard and _validate_query has run on it
Validated(r) == pc[r] \notin {"idle", "auth", "validate"} /\ response[r].status # 401

\* r was admitted to the executor
Admitted(r) == pc[r] \in {"connect", "cursor", "execute", "fetch", "commit", "finally"} \/ connects[r] > 0

RejectedWith(r, status, text) ==
    /\ pc[r] = "done"
    /\ response[r].status = status
    /\ response[r].body.detail.text = text
    /\ connects[r] = 0

\* the words of s: its maximal runs of letters, digits and underscores
WordStarts(s) == {i \in 1..Len(s) : IsWordAt(s, i) /\ ~IsWordAt(s, i - 1)}

WordAt(s, i) == SubSeq(s, i, RunEnd(s, i, WordChars))

\* some word of s is a forbidden keyword, in any letter case
HasForbiddenWord(s) == \E i \in WordStarts(s) : Lower(WordAt(s, i)) \in FORBIDDEN_WORDS

\* the first blank-delimited token of the trimmed text, lower-cased
ClaimHeadVerb(s) ==
    LET t == strip(s)
        n == CHOOSE n \in 1..Len(t) : /\ \A m \in 1..n : t[m] \notin Whitespace
                                      /\ n = Len(t) \/ t[n + 1] \in Whitespace
    IN  Lower(SubSeq(t, 1, n))

\* the schema-qualified references of s, schema.identifier, with the schema
\* qualifier in lower case
QualifiedRefs(s) ==
    {Lower(WordAt(s, i)) \o <<".">> \o WordAt(s, Len(WordAt(s, i)) + i + 1) :
        i \in {k \in WordStarts(s) : LET e == RunEnd(s, k, WordChars)
                                     IN  e + 2 <= Len(s) /\ s[e + 1] = "." /\ IsWordAt(s, e + 2)}}

DisallowedDboRefs(s) ==
    {ref \in QualifiedRefs(s) : /\ SubSeq(ref, 1, Len(DBO_DOT)) = DBO_DOT
                                /\ ref \notin ALLOWED_OBJECTS \cup ALLOWED_PROCS}

\* the reference that immediately follows the head verb: the run of word
\* characters and dots after the blanks after the first token
FollowingRef(s) ==
    LET t == strip(s)
        n == Len(ClaimHeadVerb(s))
        w == RunEnd(t, n + 1, Whitespace)
    IN  SubSeq(t, w + 1, RunEnd(t, w + 1, WordChars \cup {"."}))

TextForbidden == "Forbidden SQL keyword"

TextVerb == "Only SELECT/INSERT/UPDATE/DELETE/EXEC are allowed"

TextObject == "Object not allowed: "

TextNoProc == "EXEC only allowed for dbo stored procedures"

TextProc == "Procedure not allowed: "

\* C1: an authenticated request whose non-empty text holds a forbidden keyword
\* as a whole word, in any case and position, is rejected with 403 and the
\* forbidden-keyword detail, whatever its head verb and objects are
C1_ForbiddenWins ==
    \A r \in Reqs :
        (Validated(r) /\ strip(Query(r)) # <<>> /\ HasForbiddenWord(Query(r)))
            => RejectedWith(r, 403, TextForbidden)

\* 'DROP dbo.AppMeta': the head verb is not allowed either, the detail is the
\* forbidden keyword's
C1_Witness ==
    \E r \in Reqs : /\ Query(r) = <<"D","R","O","P"," ","d","b","o",".","A","p","p","M","e","t","a">>
                    /\ ClaimHeadVerb(Query(r)) \notin ALLOWED_VERBS
                    /\ RejectedWith(r, 403, TextForbidden)

\* C2: no text that references a schema-qualified object outside the two
\* allow-lists is admitted to the executor
C2_OnlyAllowedRefs ==
    \A r \in Reqs : Admitted(r) => QualifiedRefs(Query(r)) \subseteq ALLOWED_OBJECTS \cup ALLOWED_PROCS

\* C3: a text whose head verb is exec is admitted only if the reference that
\* immediately follows the verb is an allow-listed procedure
C3_ExecTarget ==
    \A r \in Reqs :
        (Admitted(r) /\ ClaimHeadVerb(Query(r)) = EXEC_WORD) => FollowingRef(Query(r)) \in ALLOWED_PROCS

\* C4: a text whose head verb is not one of select, insert, update, delete,
\* exec, with is rejected with 403
C4_VerbRequired ==
    \A r \in Reqs :
        (Validated(r) /\ strip(Query(r)) # <<>> /\ ClaimHeadVerb(Query(r)) \notin ALLOWED_VERBS)
            => pc[r] = "done" /\ response[r].status = 403 /\ connects[r] = 0

\* 'shutdown dbo.AppMeta': no forbidden keyword, every object allow-listed
C4_Witness ==
    \E r \in Reqs : /\ Query(r) = <<"s","h","u","t","d","o","w","n"," ","d","b","o",".","A","p","p","M","e","t","a">>
                    /\ ~HasForbiddenWord(Query(r))
                    /\ QualifiedRefs(Query(r)) \subseteq ALLOWED_OBJECTS
                    /\ RejectedWith(r, 403, TextVerb)

\* C5: a request the auth guard or the validator rejects (401, 400, 403) opens
\* no connection, executes nothing, commits nothing and encodes no result;
\* connect happens only after both have returned without error
C5_NoDatabaseOnReject ==
    \A r \in Reqs :
        /\ response[r].status \in {400, 401, 403}
              => /\ connects[r] = 0 /\ executes[r] = 0 /\ commits[r] = 0
                 /\ conn[r] = "unbound" /\ txn[r] = "none" /\ cur[r] = NoCursor
                 /\ pc[r] = "done"
        /\ connects[r] > 0 => Admitted(r) /\ response[r].status \notin {400, 401, 403}
        /\ pc[r] = "connect"
              => /\ connects[r] = 0
                 /\ require_token(req[r].x_token, envToken) = NoError
                 /\ validate_query(Query(r), hashSeed) = NoError

\* a rejected request has ended while another one is at the database
C5_Witness ==
    \E r, s \in Reqs : /\ RejectedWith(r, 403, TextObject)
                       /\ conn[s] = "open"

\* C6: when a request ends, its connection is closed on every path, and a
\* failed connect leaves the handler with the connect failure itself
C6_ConnectionReleased ==
    \A r \in Reqs :
        pc[r] = "done" =>
            /\ conn[r] # "open"
            /\ connects[r] > 0 /\ exc[r] # "connect failed" => conn[r] = "closed"
            /\ exc[r] = "connect failed"
                  => conn[r] = "unbound" /\ response[r] = ExceptClause("connect failed")

\* the statement was admitted, its execution failed, the connection is closed
C6_Witness ==
    \E r \in Reqs : pc[r] = "done" /\ exc[r] = "execute failed" /\ conn[r] = "closed"

\* the secret the guard compares with: the environment value, stripped
Secret == IF envToken = None THEN <<>> ELSE strip(envToken)

\* C7: with a secret configured, a missing, empty or different token gets 401
\* before validation and database access, and the secret itself passes; with
\* no secret every token passes
C7_AuthGuard ==
    \A r \in Reqs :
        pc[r] \notin {"idle", "auth"} =>
            IF Secret # <<>> /\ (req[r].x_token \in {None, <<>>} \/ req[r].x_token # Secret)
            THEN RejectedWith(r, 401, "Unauthorized")
            ELSE response[r].status # 401

\* no token, and a text the validator would reject: the answer is 401
C7_Witness ==
    \E r \in Reqs : /\ req[r].x_token = None
                    /\ Query(r) = <<"D","R","O","P"," ","d","b","o",".","A","p","p","M","e","t","a">>
                    /\ RejectedWith(r, 401, "Unauthorized")

\* C8: a success response has the row shape (columns, rows, rowcount; no
\* commit) when the description is non-empty, else the mutation shape
\* (committed; affected_rows, -1 for none), never both keys
C8_ResponseShape ==
    \A r \in Reqs :
        response[r].status = 200 =>
            LET b == response[r].body
            IN  IF cur[r].description # <<>>
                THEN /\ DOMAIN b = {"columns", "rows", "rowcount"}
                     /\ b.columns = cur[r].description
                     /\ b.rowcount = Len(cur[r].rows)
                     /\ Len(b.rows) = Len(cur[r].rows)
                     /\ \A i \in DOMAIN b.rows :
                            /\ Len(b.rows[i]) = Len(b.columns)
                            /\ \A j \in DOMAIN b.rows[i] :
                                   IF cur[r].rows[i][j].t = "bytes"
                                   THEN b.rows[i][j].t = "str"
                                   ELSE b.rows[i][j] = cur[r].rows[i][j]
                     /\ commits[r] = 0
                ELSE /\ DOMAIN b = {"columns", "rows", "affected_rows"}
                     /\ b.columns = <<>> /\ b.rows = <<>>
                     /\ b.affected_rows = (IF cur[r].rowcount = <<>> THEN -1 ELSE cur[r].rowcount[1])
                     /\ commits[r] = 1 /\ txn[r] = "committed"

\* one request answered with rows, another with the sentinel -1
C8_Witness ==
    \E r, s \in Reqs :
        /\ response[r].status = 200 /\ cur[r].description # <<>> /\ response[r].body.rowcount >= 1
        /\ response[s].status = 200 /\ cur[s].description = <<>> /\ cur[s].rowcount = <<>>
        /\ response[s].body.affected_rows = -1

\* C9: a driver failure in connect, cursor, execute, fetch or commit ends in
\* a 500 whose detail is the driver's message, never in a success; a request
\* connects and executes at most once
C9_DriverFailure ==
    \A r \in Reqs :
        /\ connects[r] <= 1 /\ executes[r] <= 1
        /\ exc[r] # "" =>
              /\ pc[r] \in {"finally", "done"}
              /\ response[r].status \in {0, 500}
              /\ pc[r] = "done" => /\ response[r].status = 500
                                   /\ response[r].body.detail = [text |-> exc[r], arg |-> <<>>]

C9_Witness ==
    \E r \in Reqs : pc[r] = "done" /\ exc[r] = "commit failed" /\ response[r].status = 500

\* C10 as stated: every 403 names the offending item of its subkind in its detail
C10_NamesItem ==
    \A r \in Reqs :
        (pc[r] = "done" /\ response[r].status = 403) =>
            LET arg == response[r].body.detail.arg
                q == Query(r)
            IN  \/ \E i \in WordStarts(q) : arg = WordAt(q, i) /\ Lower(arg) \in FORBIDDEN_WORDS
                \/ Lower(arg) = ClaimHeadVerb(q) /\ ClaimHeadVerb(q) \notin ALLOWED_VERBS
                \/ arg \in DisallowedDboRefs(q)
                \/ arg = FollowingRef(q) /\ arg # <<>> /\ arg \notin ALLOWED_PROCS

\* C10, amended: every 403 carries the detail of its subkind; the object and
\* procedure details name the rejected dbo reference, the forbidden-keyword,
\* verb and missing-procedure details are fixed texts that name nothing
C10_DetailBySubkind ==
    \A r \in Reqs :
        (pc[r] = "done" /\ response[r].status = 403) =>
            LET d == response[r].body.detail
                q == Query(r)
            IN  IF HasForbiddenWord(q) THEN d = [text |-> TextForbidden, arg |-> <<>>]
                ELSE IF ClaimHeadVerb(q) \notin ALLOWED_VERBS THEN d = [text |-> TextVerb, arg |-> <<>>]
                ELSE IF DisallowedDboRefs(q) # {} THEN d.text = TextObject /\ d.arg \in DisallowedDboRefs(q)
                ELSE /\ ClaimHeadVerb(q) = EXEC_WORD
                     /\ \/ d = [text |-> TextNoProc, arg |-> <<>>]
                        \/ /\ d.text = TextProc
                           /\ Lower(d.arg) \in QualifiedRefs(Lower(q))
                           /\ d.arg \notin ALLOWED_PROCS

\* the object detail names dbo.Secret
C10_Witness ==
    \E r \in Reqs : /\ Query(r) = <<"s","e","l","e","c","t"," ","*"," ","f","r","o","m"," ","d","b","o",".","S","e","c","r","e","t">>
                    /\ pc[r] = "done"
                    /\ response[r].body.detail = [text |-> TextObject, arg |-> <<"d","b","o",".","S","e","c","r","e","t">>]

XP_PREFIX == <<"x","p","_">>

\* an identifier of s begins with xp_, in any case
HasXpIdentifier(s) == \E i \in WordStarts(s) : MatchesAt(s, i, XP_PREFIX)

\* C16: an authenticated request whose text holds an identifier that begins
\* with xp_ is rejected with 403 and the forbidden-keyword detail
C16_XpPrefixRejected ==
    \A r \in Reqs :
        (Validated(r) /\ strip(Query(r)) # <<>> /\ HasXpIdentifier(Query(r)))
            => RejectedWith(r, 403, TextForbidden)

\* C18: a success response is never returned for a modification that the
\* close of the connection has rolled back
C18_SuccessIsCommitted ==
    \A r \in Reqs :
        (pc[r] = "done" /\ response[r].status = 200) => txn[r] # "rolledback"

(* ------------------------------------------------------------------ *)
(* The statements the form UI submits (app/itema_tab.py)              *)
(* ------------------------------------------------------------------ *)

\* the retrieval requests of build_itema_settings (app.itema_settings)
EXEC_OtomatikAyar == <<"E","X","E","C"," ","d","b","o",".","s","p","_","I","t","e","m","a","O","t","o","m","a","t","i","k","A","y","a","r"," ","?">>

EXEC_TipOzelAyar == <<"E","X","E","C"," ","d","b","o",".","s","p","_","I","t","e","m","a","T","i","p","O","z","e","l","A","y","a","r"," ","?">>

\* ITEMA_COLUMNS of app.itema_settings: the identity column, the key and the
\* first setting of the form
ITEMA_COLUMNS == << <<"s","i","r","a","_","n","o">>, <<"t","i","p">>, <<"k","o","k","_","t","i","p">> >>

\* sep.join(seq)
RECURSIVE Join(_, _)
Join(seq, sep) == IF seq = <<>> THEN <<>>
                  ELSE IF Len(seq) = 1 THEN seq[1]
                  ELSE seq[1] \o sep \o Join(Tail(seq), sep)

\* lines 707-733: the statement _save_manual_settings hands to cur.execute
save_manual_settings_sql ==
    LET table == <<"d","b","o",".","I","t","e","m","a","A","y","a","r">>
        cols == SelectSeq(ITEMA_COLUMNS, LAMBDA c : Lower(c) # <<"s","i","r","a","_","n","o">>)
        set_cols == SelectSeq(cols, LAMBDA c : Lower(c) # <<"t","i","p">>)
        update_set_sql == Join([i \in 1..Len(set_cols) |-> <<"[">> \o set_cols[i] \o <<"]"," ","="," ","?">>], <<","," ">>)
        insert_cols_sql == Join([i \in 1..Len(cols) |-> <<"[">> \o cols[i] \o <<"]">>], <<","," ">>)
        insert_placeholders == Join([i \in 1..Len(cols) |-> <<"?">>], <<","," ">>)
    IN  <<"\n"," "," "," "," "," "," "," "," ","I","F"," ","E","X","I","S","T","S"," ","(","S","E","L","E","C","T"," ","1"," ","F","R","O","M"," ">> \o table \o <<" ","W","H","E","R","E"," ","[","t","i","p","]"," ","="," ","?",")","\n"," "," "," "," "," "," "," "," ","B","E","G","I","N","\n"," "," "," "," "," "," "," "," "," "," "," "," ","U","P","D","A","T","E"," ">> \o table \o <<"\n"," "," "," "," "," "," "," "," "," "," "," "," ","S","E","T"," ">> \o update_set_sql \o <<"\n"," "," "," "," "," "," "," "," "," "," "," "," ","W","H","E","R","E"," ","[","t","i","p","]"," ","="," ","?",";","\n"," "," "," "," "," "," "," "," ","E","N","D","\n"," "," "," "," "," "," "," "," ","E","L","S","E","\n"," "," "," "," "," "," "," "," ","B","E","G","I","N","\n"," "," "," "," "," "," "," "," "," "," "," "," ","I","N","S","E","R","T"," ","I","N","T","O"," ">> \o table \o <<" ","(">> \o insert_cols_sql \o <<")","\n"," "," "," "," "," "," "," "," "," "," "," "," ","V","A","L","U","E","S"," ","(">> \o insert_placeholders \o <<")",";","\n"," "," "," "," "," "," "," "," ","E","N","D","\n"," "," "," "," "," "," "," "," ">>

UiStatements == { EXEC_OtomatikAyar, EXEC_TipOzelAyar, save_manual_settings_sql }

\* the type code the form binds to the first placeholder
UiParams == { << Str(<<"T","1">>) >> }

\* the form UI's requests, sent with the configured secret
NextU == Receive("r1", UiStatements, {<<"k">>}, UiParams) \/ Step("r1")

SpecU == InitV /\ [][NextU]_vars

\* C17: every statement of the form UI passes _validate_query: none of its
\* requests ends with a validation error, each reaches the database
C17_UiAdmitted ==
    \A r \in Reqs :
        (pc[r] = "done" /\ Query(r) \in UiStatements /\ response[r].status # 401)
            => connects[r] > 0 /\ response[r].status \notin {400, 403}

(* ------------------------------------------------------------------ *)
(* Resubmission: the admission pipeline over the life of the service  *)
(* ------------------------------------------------------------------ *)

\* an empty text, a blank one, one that names two objects outside the
\* allow-lists, and one that is admitted
ResubmittedQueries == { <<>>, <<" ", "\t">>, <<"s","e","l","e","c","t"," ","*"," ","f","r","o","m"," ","d","b","o",".","S","e","c","r","e","t",","," ","d","b","o",".","H","i","d","d","e","n">>, <<"s","e","l","e","c","t"," ","*"," ","f","r","o","m"," ","d","b","o",".","A","p","p","M","e","t","a">> }

SampleParams == { <<>>, << Str(<<"T","Q","=","=">>) >> }

\* the server process ends and another one starts while no request is in
\* flight: the new interpreter has its own str hash seed, which fixes the
\* iteration order of every set of str it builds (line 106)
Restart ==
    /\ \A r \in Reqs : pc[r] \in {"idle", "done"}
    /\ hashSeed' \in HashSeeds
    /\ UNCHANGED <<envToken, params, pc, req, conn, cur, txn, exc, outcome, response, connects, executes, commits>>

\* lines 146-150 of every request, up to the admission verdict
NextR == Restart \/ \E r \in Reqs : Receive(r, ResubmittedQueries, Tokens, SampleParams) \/ Auth(r) \/ Validate(r)

SpecR == Init /\ [][NextR]_vars

TextEmpty == "Empty query"

TextUnauthorized == "Unauthorized"

\* the request's token passes _require_token
PassesGuard(r) == Secret = <<>> \/ req[r].x_token = Secret

\* C11 as stated: a request with an empty or blank text ends with 400 'Empty
\* query', whatever its token and parameters
C11_BlankIsBadRequest ==
    \A r \in Reqs :
        (pc[r] = "done" /\ strip(Query(r)) = <<>>) => RejectedWith(r, 400, TextEmpty)

\* C11, amended: a request with an empty or blank text ends with 401 when its
\* token fails the guard, else with 400 'Empty query'; it never gets a 403
\* and never reaches the database
C11_BlankAfterGuard ==
    \A r \in Reqs :
        (pc[r] \notin {"idle", "auth", "validate"} /\ strip(Query(r)) = <<>>) =>
            IF PassesGuard(r) THEN RejectedWith(r, 400, TextEmpty)
            ELSE RejectedWith(r, 401, TextUnauthorized)

\* a blank text with parameters and the right token gets 400
C11_Witness ==
    \E r \in Reqs : /\ Query(r) = <<" ", "\t">>
                    /\ req[r].params # <<>>
                    /\ Secret # <<>> /\ req[r].x_token = Secret
                    /\ RejectedWith(r, 400, TextEmpty)

\* C14: two finished requests with the same text and the same token, one of
\* them rejected, have the same status and the same detail
C14_SameRejection ==
    \A a, b \in Reqs :
        ( /\ pc[a] = "done" /\ pc[b] = "done"
          /\ Query(a) = Query(b) /\ req[a].x_token = req[b].x_token
          /\ response[a].status \in {400, 401, 403} )
            => response[b] = response[a]

(* ------------------------------------------------------------------ *)
(* Parameters: the requests whose parameters _adapt_params sees       *)
(* ------------------------------------------------------------------ *)

MaxTextLen == 4

MaxParams == 2

\* an insert into dbo.NoteRules, the same with two blanks after INSERT, an
\* update of that table, and a delete whose trailing comment holds the text
AdaptQueries == { <<"I","N","S","E","R","T"," ","I","N","T","O"," ","d","b","o",".","N","o","t","e","R","u","l","e","s"," ","V","A","L","U","E","S"," ","(","?",","," ","?",")">>, <<"I","N","S","E","R","T"," "," ","I","N","T","O"," ","d","b","o",".","N","o","t","e","R","u","l","e","s"," ","V","A","L","U","E","S"," ","(","?",","," ","?",")">>,
                  <<"u","p","d","a","t","e"," ","d","b","o",".","N","o","t","e","R","u","l","e","s"," ","s","e","t"," ","d","o","c"," ","="," ","?">>, <<"d","e","l","e","t","e"," ","f","r","o","m"," ","d","b","o",".","N","o","t","e","R","u","l","e","s"," ","w","h","e","r","e"," ","k"," ","="," ","?"," ","-","-"," ","I","N","S","E","R","T"," ","I","N","T","O"," ","d","b","o",".","N","o","t","e","R","u","l","e","s">> }

\* two characters of the base64 alphabet, the padding and one outside of it
TextChars == {"T", "Q", "=", "-"}

Texts == UNION {[1..n -> TextChars] : n \in 0..MaxTextLen}

SampleValues == { Num(7), Str(<<"T","Q","=","=">>), Str(<<"T","Q">>) }

\* one str parameter of every text, and the lists of sample values
ParamLists == {<< Str(t) >> : t \in Texts} \cup UNION {[1..n -> SampleValues] : n \in 0..MaxParams}

\* lines 146-152 for one request with the configured secret
NextP == Receive("r1", AdaptQueries, {<<"k">>}, ParamLists) \/ Auth("r1") \/ Validate("r1")

SpecP == InitV /\ [][NextP]_vars

\* str.split(): the maximal runs of non-blank characters
RECURSIVE Split(_)
Split(s) ==
    LET t == lstrip(s)
        e == RunEnd(t, 1, {t[i] : i \in 1..Len(t)} \ Whitespace)
    IN  IF t = <<>> THEN <<>> ELSE <<SubSeq(t, 1, e)>> \o Split(SubSeq(t, e + 1, Len(t)))

NOTERULES == <<"d","b","o",".","n","o","t","e","r","u","l","e","s">>

\* the statement is an insert into dbo.NoteRules: INSERT INTO followed by
\* that table's name, keywords and name in any case
IsNoteRulesInsert(q) ==
    LET w == Split(q)
    IN  /\ Len(w) >= 3
        /\ Lower(w[1]) = <<"i","n","s","e","r","t">>
        /\ Lower(w[2]) = <<"i","n","t","o">>
        /\ MatchesAt(w[3], 1, NOTERULES)
        /\ ~IsWordAt(w[3], Len(NOTERULES) + 1)

\* the parameters the executor gets are there once validation has passed
Adapted(r) == pc[r] = "connect"

\* C12: for an insert into dbo.NoteRules every str parameter that decodes is
\* replaced by its bytes and every other parameter is kept; for every other
\* query the executor's parameters are the request's; length and order are kept
C12_AdaptOnlyNoteRulesInserts ==
    \A r \in Reqs :
        Adapted(r) =>
            /\ Len(params[r]) = Len(req[r].params)
            /\ \A i \in 1..Len(params[r]) :
                  LET p == req[r].params[i]
                  IN  params[r][i] = IF IsNoteRulesInsert(Query(r)) /\ p.t = "str" /\ b64decode(p.s).ok
                                     THEN Bytes(b64decode(p.s).bytes)
                                     ELSE p

\* C13 as stated: every str parameter that _adapt_params decoded reads back,
\* through _encode_value, as the text that was submitted
C13_RoundTrip ==
    \A r \in Reqs :
        Adapted(r) =>
            \A i \in 1..Len(params[r]) :
                (req[r].params[i].t = "str" /\ params[r][i].t = "bytes")
                    => encode_value(params[r][i]) = req[r].params[i]

\* the 6-bit value of a base64 character
SixBits(c) == (CHOOSE n \in DOMAIN B64Alphabet : B64Alphabet[n] = c) - 1

\* t is what b64encode produces: groups of 4 alphabet characters, the last one
\* padded with = or == and its unused low bits zero
IsCanonicalB64(t) ==
    LET n == Len(t)
        pad == IF n > 0 /\ t[n] = "=" THEN (IF n > 1 /\ t[n - 1] = "=" THEN 2 ELSE 1) ELSE 0
    IN  /\ n % 4 = 0
        /\ \A i \in 1..(n - pad) : \E k \in DOMAIN B64Alphabet : B64Alphabet[k] = t[i]
        /\ pad = 1 => SixBits(t[n - 1]) % 4 = 0
        /\ pad = 2 => SixBits(t[n - 2]) % 16 = 0

\* C13, amended: a str parameter of a query whose lower-cased text holds
\* 'insert into dbo.noterules' is decoded and reads back as the text submitted
\* exactly when that text is canonical base64
C13_CanonicalRoundTrip ==
    \A r \in Reqs :
        (Adapted(r) /\ Contains(Lower(Query(r)), NOTERULES_INSERT)) =>
            \A i \in 1..Len(params[r]) :
                LET p == req[r].params[i]
                IN  p.t = "str" =>
                        (IsCanonicalB64(p.s)
                            <=> params[r][i].t = "bytes" /\ encode_value(params[r][i]) = p)

\* 'TQ==' is stored as the byte 77 and reads back as 'TQ=='
C13_Witness ==
    /\ Adapted("r1")
    /\ req["r1"].params = << Str(<<"T","Q","=","=">>) >>
    /\ params["r1"] = << Bytes(<<77>>) >>
    /\ encode_value(params["r1"][1]) = Str(<<"T","Q","=","=">>)

\* everything the handler keeps for request r
Own(r) == <<pc[r], req[r], params[r], conn[r], cur[r], txn[r], exc[r], outcome[r], response[r], connects[r], executes[r], commits[r]>>

\* C15: under every interleaving a step changes only the state of the request
\* that takes it (its own connection, cursor, transaction and response); the
\* process's configuration, which fixes allow-lists and pattern, is never
\* changed; and a request's admission verdict is what _validate_query gives
\* for its own text alone
C15_RequestsIsolated ==
    [][ /\ envToken' = envToken
        /\ hashSeed' = hashSeed
        /\ \A r \in Reqs : pc'[r] = pc[r] => Own(r)' = Own(r)
        /\ \A r \in Reqs : connects'[r] # connects[r] => pc[r] = "connect" /\ conn[r] = "unbound"
        /\ \A r \in Reqs :
              (pc[r] = "validate" /\ pc'[r] # "validate") =>
                  LET e == validate_query(req[r].query, hashSeed)
                  IN  IF e.status = 0 THEN pc'[r] = "connect" /\ response'[r] = NoResponse
                      ELSE pc'[r] = "done" /\ response'[r] = ErrorResponse(e) /\ connects'[r] = 0
      ]_vars

\* both requests hold an open connection at once, one with uncommitted work
\* and one already committed
C15_Witness ==
    /\ conn["r1"] = "open" /\ conn["r2"] = "open"
    /\ txn["r1"] = "dirty" /\ txn["r2"] = "committed"
====
